---------------------------- MODULE Spec2Model ----------------------------
(***************************************************************************)
(* Client-side protocol layer of the e-waste device ledger                 *)
(* (src/src/transactions.py): the four public operations                   *)
(* allocate_device_id, send_device_location, query_number_of_devices and   *)
(* query_device_information, the wire strings they build, the digest they  *)
(* sign, and what they make of the network's response.                     *)
(*                                                                         *)
(* Representation.  A Python str is a sequence of characters, a character  *)
(* a one-letter TLA+ string ("a", "=", "7"); two characters outside ASCII  *)
(* are named by their code point ("U+00E9", "U+D800"), as are the quote    *)
(* and the backslash.  A bytes value is a                                  *)
(* sequence of numbers 0..255.  A computation that can raise returns       *)
(* [exc |-> <exception name or "">, v |-> <value>].                        *)
(***************************************************************************)
EXTENDS Integers, Sequences, FiniteSets, Bags, TLC

(***************************************************************************)
(* Bounds of the model.                                                    *)
(***************************************************************************)
\* calls of public operations made in one run of the client
MaxCalls == 2
\* visits in a history payload the network returns
MaxVisits == 2
\* the largest integer the network returns as a payload
MaxInteger == 20

---------------------------------------------------------------------------
(***************************************************************************)
(* Python values and exceptions.                                           *)
(***************************************************************************)
Ok(x) == [exc |-> "", v |-> x]

Raise(e) == [exc |-> e, v |-> <<>>]

Raised(r) == r.exc # ""

Take(s, n) == SubSeq(s, 1, n)

\* the printable ASCII characters, code 32 first
AsciiTable ==
    << " ", "!", "U+0022", "#", "$", "%", "&", "'", "(", ")", "*", "+", ",", "-", ".", "/",
       "0", "1", "2", "3", "4", "5", "6", "7", "8", "9", ":", ";", "<", "=", ">", "?",
       "@", "A", "B", "C", "D", "E", "F", "G", "H", "I", "J", "K", "L", "M", "N", "O",
       "P", "Q", "R", "S", "T", "U", "V", "W", "X", "Y", "Z", "[", "U+005C", "]", "^", "_",
       "U+0060", "a", "b", "c", "d", "e", "f", "g", "h", "i", "j", "k", "l", "m", "n", "o",
       "p", "q", "r", "s", "t", "u", "v", "w", "x", "y", "z", "{", "|", "}", "~" >>

AsciiChars == { AsciiTable[i] : i \in 1..Len(AsciiTable) }

AsciiCode == [c \in AsciiChars |-> 31 + CHOOSE i \in 1..Len(AsciiTable) : AsciiTable[i] = c]

\* ord(c)
Ord(c) ==
    CASE c = "U+00E9" -> 233
      [] c = "U+D800" -> 55296
      [] OTHER -> AsciiCode[c]

\* chr(n), for the code points of the model
Chr(n) ==
    CASE n = 233 -> "U+00E9"
      [] n = 55296 -> "U+D800"
      [] OTHER -> AsciiTable[n - 31]

Digits == <<"0", "1", "2", "3", "4", "5", "6", "7", "8", "9">>

DigitChars == { Digits[i] : i \in 1..10 }

IsDigit(c) == c \in DigitChars

DigitVal(c) == AsciiCode[c] - 48

\* <<1, ..., n>>
Indices(n) == [i \in 1..n |-> i]

\* parts[lo] \o ... \o parts[hi]
RECURSIVE Concat(_, _, _)
Concat(parts, lo, hi) ==
    IF lo > hi THEN <<>>
    ELSE IF lo = hi THEN parts[lo]
    ELSE LET mid == (lo + hi) \div 2 IN
         Concat(parts, lo, mid) \o Concat(parts, mid + 1, hi)

---------------------------------------------------------------------------
(***************************************************************************)
(* bytes(s, "UTF-8") and b.decode("UTF-8"), for code points below U+0800   *)
(* and the surrogates (which UTF-8 cannot encode).                         *)
(***************************************************************************)
\* the UTF-8 bytes of one code point of the basic plane; none for a surrogate
Utf8Bytes(cp) ==
    IF cp < 128 THEN <<cp>>
    ELSE IF cp < 2048 THEN <<192 + (cp \div 64), 128 + (cp % 64)>>
    ELSE IF cp >= 55296 /\ cp < 57344 THEN <<>>
    ELSE <<224 + (cp \div 4096), 128 + ((cp \div 64) % 64), 128 + (cp % 64)>>

\* bytes(s, BYTE_ENCODING)
EncodeUtf8(s) ==
    LET parts == [i \in 1..Len(s) |-> Utf8Bytes(Ord(s[i]))] IN
    IF \E i \in 1..Len(s) : parts[i] = <<>> THEN Raise("UnicodeEncodeError")
    ELSE Ok(Concat(parts, 1, Len(s)))

IsContinuation(x) == x >= 128 /\ x < 192

IsLead2(x) == x >= 194 /\ x < 224

\* b.decode(BYTE_ENCODING): one-byte and two-byte sequences; the only
\* two-byte character the model names is U+00E9, and every other byte
\* sequence that is not ASCII is refused
DecodeUtf8(b) ==
    LET n == Len(b)
        good(i) ==
            \/ b[i] < 128
            \/ /\ IsLead2(b[i]) /\ i + 1 <= n /\ IsContinuation(b[i + 1])
               /\ (b[i] - 192) * 64 + (b[i + 1] - 128) = 233
            \/ IsContinuation(b[i]) /\ i > 1 /\ IsLead2(b[i - 1])
        starts == SelectSeq(Indices(n), LAMBDA i : ~IsContinuation(b[i]))
    IN IF \E i \in 1..n : ~good(i) THEN Raise("UnicodeDecodeError")
       ELSE Ok([k \in 1..Len(starts) |->
                   IF b[starts[k]] < 128 THEN Chr(b[starts[k]]) ELSE Chr(233)])

---------------------------------------------------------------------------
(***************************************************************************)
(* base64.b64encode / base64.b64decode (validate=False): characters        *)
(* outside the alphabet are skipped, a complete pad sequence ends the      *)
(* input, and data left in an unfinished quad is "Incorrect padding".      *)
(***************************************************************************)
B64Alphabet ==
    << "A", "B", "C", "D", "E", "F", "G", "H", "I", "J", "K", "L", "M", "N", "O", "P",
       "Q", "R", "S", "T", "U", "V", "W", "X", "Y", "Z", "a", "b", "c", "d", "e", "f",
       "g", "h", "i", "j", "k", "l", "m", "n", "o", "p", "q", "r", "s", "t", "u", "v",
       "w", "x", "y", "z", "0", "1", "2", "3", "4", "5", "6", "7", "8", "9", "+", "/" >>

B64Chars == { B64Alphabet[i] : i \in 1..Len(B64Alphabet) }

B64Index ==
    [c \in B64Chars |-> (CHOOSE i \in 1..Len(B64Alphabet) : B64Alphabet[i] = c) - 1]

IsB64(c) == c \in B64Chars

B64Val(c) == B64Index[c]

B64Chr(n) == B64Alphabet[n + 1]

\* base64.b64encode(b), as the str the JSON body carries: character j of
\* the output, four for every three bytes, padded with "="
b64encode(b) ==
    LET n == Len(b)
        at(i) == IF i <= n THEN b[i] ELSE 0
        char(j) ==
            LET g == 3 * ((j - 1) \div 4)
                p == (j - 1) % 4
            IN CASE p = 0 -> B64Chr(at(g + 1) \div 4)
                 [] p = 1 -> B64Chr((at(g + 1) % 4) * 16 + (at(g + 2) \div 16))
                 [] p = 2 -> IF g + 2 > n THEN "="
                             ELSE B64Chr((at(g + 2) % 16) * 4 + (at(g + 3) \div 64))
                 [] OTHER -> IF g + 3 > n THEN "=" ELSE B64Chr(at(g + 3) % 64)
    IN [j \in 1..(4 * ((n + 2) \div 3)) |-> char(j)]

\* binascii.a2b_base64.  The C loop keeps quad_pos (data characters seen,
\* modulo 4) and pads (the "=" since the last data character, counted once
\* quad_pos is 2 or 3); it stops at the "=" that completes the quad, and at
\* the end of the input an unfinished quad is an error.
A2bBase64(s) ==
    LET n == Len(s)
        dataIdx == SelectSeq(Indices(n), LAMBDA i : IsB64(s[i]))
        padIdx == SelectSeq(Indices(n), LAMBDA i : s[i] = "=")
        dataBefore(i) == Cardinality({k \in 1..Len(dataIdx) : dataIdx[k] < i})
        quad_pos(i) == dataBefore(i) % 4
        lastData(i) == IF dataBefore(i) = 0 THEN 0 ELSE dataIdx[dataBefore(i)]
        pads(i) == Cardinality({k \in 1..Len(padIdx) :
                                   padIdx[k] > lastData(i) /\ padIdx[k] <= i})
        stops == { padIdx[k] : k \in { j \in 1..Len(padIdx) :
                       /\ quad_pos(padIdx[j]) >= 2
                       /\ quad_pos(padIdx[j]) + pads(padIdx[j]) >= 4 } }
        stop == IF stops = {} THEN n + 1
                ELSE CHOOSE i \in stops : \A j \in stops : i <= j
        m == dataBefore(stop)
        d(k) == IF k <= m THEN B64Val(s[dataIdx[k]]) ELSE 0
        byte(k) ==
            LET g == 4 * ((k - 1) \div 3)
                p == (k - 1) % 3
            IN CASE p = 0 -> d(g + 1) * 4 + (d(g + 2) \div 16)
                 [] p = 1 -> (d(g + 2) % 16) * 16 + (d(g + 3) \div 4)
                 [] OTHER -> (d(g + 3) % 4) * 64 + d(g + 4)
        bytes == 3 * (m \div 4) + (IF m % 4 >= 2 THEN (m % 4) - 1 ELSE 0)
    IN IF stops = {} /\ m % 4 # 0 THEN Raise("binascii.Error")
       ELSE Ok([k \in 1..bytes |-> byte(k)])

\* base64.b64decode(x) of a JSON value x: None and numbers are a TypeError,
\* a str with a character outside ASCII a ValueError
b64decode(x) ==
    IF x.t # "str" THEN Raise("TypeError")
    ELSE IF \E i \in 1..Len(x.v) : Ord(x.v[i]) >= 128 THEN Raise("ValueError")
    ELSE A2bBase64(x.v)

---------------------------------------------------------------------------
(***************************************************************************)
(* str(n), int(s), str(b), str.split("=") and "=".join.                    *)
(***************************************************************************)
RECURSIVE NatStr(_)
NatStr(n) ==
    IF n < 10 THEN <<Digits[n + 1]>>
    ELSE Append(NatStr(n \div 10), Digits[(n % 10) + 1])

\* str(n) of an int
IntStr(n) == IF n < 0 THEN <<"-">> \o NatStr(0 - n) ELSE NatStr(n)

\* str(b) of a bool
BoolStr(b) == IF b THEN <<"T", "r", "u", "e">> ELSE <<"F", "a", "l", "s", "e">>

RECURSIVE StripLeft(_)
StripLeft(s) == IF s # <<>> /\ Head(s) = " " THEN StripLeft(Tail(s)) ELSE s

RECURSIVE StripRight(_)
StripRight(s) ==
    IF s # <<>> /\ s[Len(s)] = " " THEN StripRight(Take(s, Len(s) - 1)) ELSE s

\* the value of a digit string that may hold single underscores between digits;
\* -1 when it is not one
RECURSIVE DigitsValue(_, _, _)
DigitsValue(s, i, acc) ==
    IF i > Len(s) THEN acc
    ELSE IF IsDigit(s[i]) THEN DigitsValue(s, i + 1, acc * 10 + DigitVal(s[i]))
    ELSE IF s[i] = "_" /\ i > 1 /\ IsDigit(s[i - 1]) /\ i < Len(s) /\ IsDigit(s[i + 1])
         THEN DigitsValue(s, i + 1, acc)
         ELSE -1

\* int(s) of a str: blanks stripped, an optional sign, decimal digits
ParseInt(s) ==
    LET t == StripRight(StripLeft(s))
        signed == t # <<>> /\ Head(t) \in {"+", "-"}
        body == IF signed THEN Tail(t) ELSE t
        n == IF body = <<>> THEN -1 ELSE DigitsValue(body, 1, 0)
    IN IF n < 0 THEN Raise("ValueError")
       ELSE Ok(IF signed /\ Head(t) = "-" THEN 0 - n ELSE n)

\* s.split("="): the fields between the separators, at least one
Split(s) ==
    LET n == Len(s)
        seps == SelectSeq(Indices(n), LAMBDA i : s[i] = "=")
        from(k) == IF k = 1 THEN 1 ELSE seps[k - 1] + 1
        to(k) == IF k = Len(seps) + 1 THEN n ELSE seps[k] - 1
    IN [k \in 1..(Len(seps) + 1) |-> SubSeq(s, from(k), to(k))]

\* "=".join(fields)
RECURSIVE Join(_)
Join(fields) ==
    IF fields = <<>> THEN <<>>
    ELSE IF Len(fields) = 1 THEN fields[1]
    ELSE fields[1] \o <<"=">> \o Join(Tail(fields))

---------------------------------------------------------------------------
(***************************************************************************)
(* datetime: a record of its seven fields.  DATETIME_FORMAT is             *)
(* "%y%m%d%H%M%S%f"; DatetimeFormat lists its directives in order.         *)
(***************************************************************************)
DatetimeFormat == <<"y", "m", "d", "H", "M", "S", "f">>

Pad2(n) == <<Digits[(n \div 10) + 1], Digits[(n % 10) + 1]>>

Pad6(n) == Pad2(n \div 10000) \o Pad2((n \div 100) % 100) \o Pad2(n % 100)

\* one directive of strftime
FormatDirective(dt, d) ==
    CASE d = "y" -> Pad2(dt.year % 100)
      [] d = "m" -> Pad2(dt.month)
      [] d = "d" -> Pad2(dt.day)
      [] d = "H" -> Pad2(dt.hour)
      [] d = "M" -> Pad2(dt.minute)
      [] d = "S" -> Pad2(dt.second)
      [] OTHER -> Pad6(dt.microsecond)

RECURSIVE StrftimeFrom(_, _)
StrftimeFrom(dt, k) ==
    IF k > Len(DatetimeFormat) THEN <<>>
    ELSE FormatDirective(dt, DatetimeFormat[k]) \o StrftimeFrom(dt, k + 1)

\* dt.strftime(DATETIME_FORMAT)
strftime(dt) == StrftimeFrom(dt, 1)

\* the value of the digits s[from..to]
RECURSIVE DigitRun(_, _, _)
DigitRun(s, from, to) ==
    IF to < from THEN 0 ELSE DigitRun(s, from, to - 1) * 10 + DigitVal(s[to])

AllDigits(s, from, to) ==
    /\ to <= Len(s)
    /\ \A i \in from..to : IsDigit(s[i])

\* what the two-character alternatives of a directive's regular expression accept
Two(d, n) ==
    CASE d = "y" -> TRUE
      [] d = "m" -> n >= 1 /\ n <= 12
      [] d = "d" -> n >= 1 /\ n <= 31
      [] d = "H" -> n <= 23
      [] d = "M" -> n <= 59
      [] OTHER -> n <= 61

\* what the one-character alternative accepts (%y has none)
One(d, n) ==
    CASE d = "y" -> FALSE
      [] d \in {"m", "d"} -> n >= 1
      [] OTHER -> TRUE

\* the widths a directive can take at position pos, in the order the regular
\* expression tries its alternatives; %d also takes a blank and a digit
Alternatives(s, pos, d) ==
    (IF AllDigits(s, pos, pos + 1) /\ Two(d, DigitRun(s, pos, pos + 1))
     THEN <<[w |-> 2, n |-> DigitRun(s, pos, pos + 1)]>> ELSE <<>>)
    \o (IF AllDigits(s, pos, pos) /\ One(d, DigitRun(s, pos, pos))
        THEN <<[w |-> 1, n |-> DigitRun(s, pos, pos)]>> ELSE <<>>)
    \o (IF /\ d = "d" /\ pos + 1 <= Len(s) /\ s[pos] = " "
           /\ IsDigit(s[pos + 1]) /\ s[pos + 1] # "0"
        THEN <<[w |-> 2, n |-> DigitVal(s[pos + 1])]>> ELSE <<>>)

\* the longest run of digits from pos, at most 6: %f is [0-9]{1,6}
RECURSIVE Fraction(_, _, _)
Fraction(s, pos, taken) ==
    IF taken < 6 /\ pos + taken <= Len(s) /\ IsDigit(s[pos + taken])
    THEN Fraction(s, pos, taken + 1)
    ELSE taken

RECURSIVE Pow10(_)
Pow10(k) == IF k = 0 THEN 1 ELSE 10 * Pow10(k - 1)

\* the regular expression's match of the directives k.. from pos: the first
\* in its backtracking order, as [exc, v |-> <<values, end>>]
RECURSIVE MatchFrom(_, _, _)
RECURSIVE FirstMatch(_, _, _, _, _)
MatchFrom(s, pos, k) ==
    IF DatetimeFormat[k] = "f"
    THEN LET w == Fraction(s, pos, 0) IN
         IF w = 0 THEN Raise("ValueError")
         ELSE Ok(<< <<DigitRun(s, pos, pos + w - 1) * Pow10(6 - w)>>, pos + w >>)
    ELSE FirstMatch(s, pos, k, Alternatives(s, pos, DatetimeFormat[k]), 1)

FirstMatch(s, pos, k, alts, j) ==
    IF j > Len(alts) THEN Raise("ValueError")
    ELSE LET rest == MatchFrom(s, pos + alts[j].w, k + 1) IN
         IF Raised(rest) THEN FirstMatch(s, pos, k, alts, j + 1)
         ELSE Ok(<< <<alts[j].n>> \o rest.v[1], rest.v[2] >>)

IsLeap(y) == (y % 4 = 0 /\ y % 100 # 0) \/ y % 400 = 0

DaysInMonth(y, m) ==
    CASE m = 2 -> IF IsLeap(y) THEN 29 ELSE 28
      [] m \in {4, 6, 9, 11} -> 30
      [] OTHER -> 31

\* datetime.strptime(s, DATETIME_FORMAT): the match must end the string, a
\* two-digit year below 69 is 20yy and 19yy otherwise, and the fields must
\* make a date
strptime(s) ==
    LET m == MatchFrom(s, 1, 1) IN
    IF Raised(m) THEN m
    ELSE IF m.v[2] # Len(s) + 1 THEN Raise("ValueError")
    ELSE LET f == m.v[1]
             year == IF f[1] <= 68 THEN 2000 + f[1] ELSE 1900 + f[1]
         IN IF f[3] > DaysInMonth(year, f[2]) \/ f[6] > 59
            THEN Raise("ValueError")
            ELSE Ok([year |-> year, month |-> f[2], day |-> f[3], hour |-> f[4],
                     minute |-> f[5], second |-> f[6], microsecond |-> f[7]])

---------------------------------------------------------------------------
(***************************************************************************)
(* Values as json.loads returns them, tagged by their type; a JSON object  *)
(* is a function from its keys.  A Python str result is a "str" value.     *)
(***************************************************************************)
Null == [t |-> "null", v |-> <<>>]

Num(n) == [t |-> "num", v |-> n]

Str(s) == [t |-> "str", v |-> s]

Object(f) == [t |-> "obj", v |-> f]

\* bool(x), as an if statement takes it
Truthy(x) ==
    CASE x.t = "null" -> FALSE
      [] x.t = "num" -> x.v # 0
      [] x.t = "str" -> x.v # <<>>
      [] OTHER -> DOMAIN x.v # {}

\* r[k] of a computed value r: a missing key is a KeyError, a subscript of
\* None or of a number a TypeError
Item(r, k) ==
    IF Raised(r) THEN r
    ELSE IF r.v.t # "obj" THEN Raise("TypeError")
    ELSE IF k \notin DOMAIN r.v.v THEN Raise("KeyError")
    ELSE Ok(r.v.v[k])

\* F applied to the value of r, unless r raised
Then(r, F(_)) == IF Raised(r) THEN r ELSE F(r.v)

\* json.loads(response.content) of what requests.get gave: the exception of
\* the request if it raised, a JSONDecodeError for a body that is not JSON
Loads(get) ==
    IF Raised(get) THEN get
    ELSE IF ~get.v.wellformed THEN Raise("JSONDecodeError")
    ELSE Ok(get.v.body)

\* the message of the bare except clauses
UnexpectedError ==
    Str(<< "u", "n", "e", "x", "p", "e", "c", "t", "e", "d", " ",
           "e", "r", "r", "o", "r" >>)

EmptyStr == Str(<<>>)

---------------------------------------------------------------------------
(***************************************************************************)
(* compute_hash and the signature.  SHA-256 is taken as collision-free:    *)
(* the bytes fed to the hasher stand for their digest.  A signature is the *)
(* digest tagged with the key, which is all that verification reads.       *)
(***************************************************************************)
\* the bytes the four hasher.update calls feed, in order, no separators
compute_hash(device_id, location, timestamp, destruct) ==
    LET a == EncodeUtf8(IntStr(device_id))
        b == EncodeUtf8(location)
        c == EncodeUtf8(strftime(timestamp))
        d == EncodeUtf8(BoolStr(destruct))
    IN IF Raised(a) THEN a
       ELSE IF Raised(b) THEN b
       ELSE IF Raised(c) THEN c
       ELSE IF Raised(d) THEN d
       ELSE Ok(a.v \o b.v \o c.v \o d.v)

\* signing_key.sign(digest); a signing_key that is no SigningKey (None) has
\* no sign method
Sign(signing_key, digest) ==
    IF signing_key = "None" THEN Raise("AttributeError")
    ELSE Ok(<<7>> \o digest)

HexDigits ==
    << "0", "1", "2", "3", "4", "5", "6", "7", "8", "9", "a", "b", "c", "d", "e", "f" >>

\* bytes.hex()
Hex(b) ==
    [j \in 1..(2 * Len(b)) |->
        LET x == b[(j + 1) \div 2] IN
        IF j % 2 = 1 THEN HexDigits[(x \div 16) + 1] ELSE HexDigits[(x % 16) + 1]]

Block == <<"B", "L", "O", "C", "K">>

Allocate == <<"A", "L", "L", "O", "C", "A", "T", "E">>

History == <<"H", "I", "S", "T", "O", "R", "Y">>

Number == <<"N", "U", "M", "B", "E", "R">>

\* "BLOCK={}={}={}={}={}".format(...): the arguments are evaluated first, so
\* a fault of compute_hash or of sign leaves no string
BlockString(device_id, location, now, destruct, signing_key) ==
    LET digest == compute_hash(device_id, location, now, destruct)
        signature == Then(digest, LAMBDA h : Sign(signing_key, h))
    IN Then(signature, LAMBDA sig :
            Ok(Join(<< Block, IntStr(device_id), location, strftime(now),
                       BoolStr(destruct), Hex(sig) >>)))

\* "ALLOCATE={}={}".format(location, now.strftime(DATETIME_FORMAT))
AllocateString(location, now) == Join(<<Allocate, location, strftime(now)>>)

\* "HISTORY={}".format(device_id)
HistoryString(device_id) == Join(<<History, IntStr(device_id)>>)

---------------------------------------------------------------------------
(***************************************************************************)
(* The four operations after requests.get: the rest of the try block, as a *)
(* function of what the request gave, and the except clauses.              *)
(***************************************************************************)
\* int(base64.b64decode(x).decode(BYTE_ENCODING))
\* a variant that reads the payload as the decimal string itself, without
\* the base64 decoding
DecodeIntegerPlain(x) ==
    IF x.t = "str" THEN ParseInt(x.v) ELSE Raise("TypeError")

DecodeInteger(x) ==
    Then(Then(b64decode(x), LAMBDA b : DecodeUtf8(b)), LAMBDA s : ParseInt(s))

allocate_device_id_try(get) ==
    LET dict == Loads(get)
        code == Item(Item(Item(dict, "result"), "check_tx"), "code")
    IN Then(code, LAMBDA c :
         IF Truthy(c) THEN Ok(<<FALSE, -1>>)
         ELSE Then(Item(Item(Item(dict, "result"), "deliver_tx"), "data"),
                   LAMBDA data :
                     Then(DecodeInteger(data), LAMBDA n : Ok(<<TRUE, n>>))))

\* a variant that answers a rejection with the generic message
send_device_location_try_generic(get) ==
    LET dict == Loads(get)
        code == Item(Item(Item(dict, "result"), "check_tx"), "code")
    IN Then(code, LAMBDA c :
         IF Truthy(c)
         THEN Then(Item(Item(Item(dict, "result"), "check_tx"), "log"),
                   LAMBDA log : Ok(<<FALSE, UnexpectedError>>))
         ELSE Ok(<<TRUE, EmptyStr>>))

send_device_location_try(get) ==
    LET dict == Loads(get)
        code == Item(Item(Item(dict, "result"), "check_tx"), "code")
    IN Then(code, LAMBDA c :
         IF Truthy(c)
         THEN Then(Item(Item(Item(dict, "result"), "check_tx"), "log"),
                   LAMBDA log : Ok(<<FALSE, log>>))
         ELSE Ok(<<TRUE, EmptyStr>>))

query_number_of_devices_try(get) ==
    LET message == Item(Item(Loads(get), "result"), "response")
    IN Then(Item(message, "code"), LAMBDA c :
         IF Truthy(c)
         THEN Then(Item(message, "log"), LAMBDA log : Ok(<<FALSE, log, -1>>))
         ELSE Then(Item(message, "value"), LAMBDA value :
                Then(DecodeInteger(value), LAMBDA n : Ok(<<TRUE, EmptyStr, n>>))))

\* the for loop over range(0, len(data), 2): a fault leaves device_info as
\* far as it was built in v
RECURSIVE DecodeLoop(_, _, _)
DecodeLoop(data, i, device_info) ==
    IF i > Len(data) THEN Ok(device_info)
    ELSE IF i + 1 > Len(data) THEN [exc |-> "IndexError", v |-> device_info]
    ELSE LET ts == strptime(data[i + 1]) IN
         IF Raised(ts) THEN [exc |-> ts.exc, v |-> device_info]
         ELSE DecodeLoop(data, i + 2, Append(device_info, <<data[i], ts.v>>))

\* the body of "if message["value"]:"
DecodeHistory(value) ==
    IF ~Truthy(value) THEN Ok(<<>>)
    ELSE Then(Then(b64decode(value), LAMBDA b : DecodeUtf8(b)),
              LAMBDA s : DecodeLoop(Split(s), 1, <<>>))

query_device_information_try(get) ==
    LET message == Item(Item(Loads(get), "result"), "response")
    IN Then(Item(message, "code"), LAMBDA c :
         IF Truthy(c)
         THEN Then(Item(message, "log"), LAMBDA log : Ok(<<FALSE, log, <<>>>>))
         ELSE Then(Item(message, "value"), LAMBDA value :
                LET device_info == DecodeHistory(value) IN
                LET info == Item(message, "info") IN
                IF Raised(device_info) THEN device_info
                ELSE IF Raised(info) THEN [exc |-> info.exc, v |-> device_info.v]
                ELSE Ok(<<TRUE, info.v, device_info.v>>)))

\* what an except clause does with a raised exception
Quit == [kind |-> "quit", value |-> <<>>]

Return(value) == [kind |-> "return", value |-> value]

Propagate(exc) == [kind |-> "raise", value |-> exc]

allocate_device_id_except(exc) ==
    IF exc = "KeyboardInterrupt" THEN Quit ELSE Return(<<FALSE, -1>>)

\* a variant whose last clause is "except KeyError:" in place of "except:"
send_device_location_except_narrow(exc) ==
    IF exc = "KeyboardInterrupt" THEN Quit
    ELSE IF exc = "KeyError" THEN Return(<<FALSE, UnexpectedError>>)
    ELSE Propagate(exc)

send_device_location_except(exc) ==
    IF exc = "KeyboardInterrupt" THEN Quit ELSE Return(<<FALSE, UnexpectedError>>)

query_number_of_devices_except(exc) ==
    IF exc = "KeyboardInterrupt" THEN Quit
    ELSE Return(<<FALSE, UnexpectedError, -1>>)

\* a variant that returns the list as the fault left it
query_device_information_except_partial(exc, device_info) ==
    IF exc = "KeyboardInterrupt" THEN Quit
    ELSE Return(<<FALSE, UnexpectedError, device_info>>)

\* device_info is the local list as the fault left it
query_device_information_except(exc, device_info) ==
    IF exc = "KeyboardInterrupt" THEN Quit
    ELSE Return(<<FALSE, UnexpectedError, <<>>>>)

---------------------------------------------------------------------------
(***************************************************************************)
(* Inputs: the arguments the caller passes, the readings of the clock, and *)
(* what the network sends back.                                            *)
(***************************************************************************)
DeviceIds == {0, 12}

\* a plain site name, one that holds the separator, and one that holds a
\* lone surrogate (an argument read from a command line that is not UTF-8)
Locations == { <<"A">>, <<"A", "=", "B">>, <<"U+D800">> }

SigningKeys == {"SigningKey", "None"}

Datetime(y, mo, d, h, mi, sec, us) ==
    [year |-> y, month |-> mo, day |-> d, hour |-> h, minute |-> mi,
     second |-> sec, microsecond |-> us]

\* readings of datetime.now()
Clock == { Datetime(2021, 1, 1, 1, 1, 1, 0), Datetime(2021, 1, 2, 2, 2, 2, 0) }

NoArgs == [device_id |-> 0, location |-> <<>>, destruct |-> FALSE,
           signing_key |-> "None"]

NoDatetime == Datetime(1970, 1, 1, 0, 0, 0, 0)

Writes == {"allocate_device_id", "send_device_location"}

Queries == {"query_number_of_devices", "query_device_information"}

\* the str a payload of bytes travels as
B64(s) == Str(b64encode(EncodeUtf8(s).v))

\* logs and infos of the network
Logs == { <<>>, <<"b", "a", "d">> }

\* the visits history payloads are made of: a location and an instant
Visits == { <<<<"A">>, t>> : t \in Clock }

RECURSIVE VisitLists(_)
VisitLists(n) ==
    IF n = 0 THEN { <<>> }
    ELSE LET shorter == VisitLists(n - 1) IN
         shorter \cup { Append(vs, v) : vs \in { x \in shorter : Len(x) = n - 1 },
                                       v \in Visits }

\* location1=timestamp1=location2=timestamp2...
Payload(visits) ==
    Join([k \in 1..(2 * Len(visits)) |->
             IF k % 2 = 1 THEN visits[(k + 1) \div 2][1]
             ELSE strftime(visits[k \div 2][2])])

\* the payloads of at most MaxVisits visits, in every order and with
\* repeats; each of them cut before its last timestamp, and with its last
\* timestamp cut short by a digit or put out of range
HistoryPayloads ==
    LET whole == { Payload(vs) : vs \in VisitLists(MaxVisits) }
        full == { w \in whole : w # <<>> }
    IN whole
       \cup { SubSeq(w, 1, Len(w) - 19) : w \in full }
       \cup { SubSeq(w, 1, Len(w) - 1) : w \in full }
       \cup { SubSeq(w, 1, Len(w) - 16) \o
              << "1", "3", "0", "1", "0", "1", "0", "1", "0", "1",
                 "0", "0", "0", "0", "0", "0" >> : w \in full }

\* value payloads of a HISTORY answer, and values that do not decode
HistoryValues ==
    { B64(w) : w \in HistoryPayloads }
    \cup { Null, Str(<<"A">>), Str(<<"=", "=", "=", "=">>), Str(b64encode(<<255>>)),
           Str(<<"U+00E9">>) }

\* value payloads of a NUMBER answer and data payloads of an allocation
IntegerValues ==
    { B64(IntStr(n)) : n \in 0..MaxInteger }
    \cup { B64(<<"-", "1">>), B64(<<" ", "7">>), B64(<<"x">>), B64(<<>>), Null,
           Str(<<"N", "Q">>), Str(b64encode(<<255>>)) }

\* f without the keys in missing
Without(f, missing) == [k \in (DOMAIN f) \ missing |-> f[k]]

\* the body of /broadcast_tx_commit: {result: {check_tx: {code, log},
\* deliver_tx: {code, data}}}, less the keys in missing
BroadcastBody(code, log, deliver_code, data, missing) ==
    LET check_tx == Object(Without([code |-> Num(code), log |-> Str(log)], missing))
        deliver_tx == Object(Without([code |-> Num(deliver_code), data |-> data],
                                     missing \ {"code", "log"}))
        res == Object(Without([check_tx |-> check_tx, deliver_tx |-> deliver_tx],
                              missing))
    IN Object(Without([result |-> res], missing))

\* the body of /abci_query: {result: {response: {code, log, info, value}}}
QueryBody(code, log, info, value, missing) ==
    LET response == Object(Without([code |-> Num(code), log |-> Str(log),
                                    info |-> Str(info), value |-> value], missing))
    IN Object(Without([result |-> Object(Without([response |-> response], missing))],
                      missing))

\* one key of the envelope missing, or none
BroadcastShapes ==
    { {} } \cup { {k} : k \in {"result", "check_tx", "code", "log", "deliver_tx", "data"} }

\* any of the optional fields missing, or one key of the envelope
QueryShapes ==
    (SUBSET {"log", "info", "value"})
    \cup { {k} : k \in {"result", "response", "code"} }

\* what the network may answer to a transaction it rejected at the check
\* stage or failed to apply at the delivery stage
RejectedReplies ==
    { BroadcastBody(1, log, 0, Null, missing) :
          log \in Logs, missing \in BroadcastShapes }

DeliverFailedReplies ==
    { BroadcastBody(0, <<>>, 1, Null, missing) : missing \in BroadcastShapes }

\* what it may answer to a transaction it applied, data being what the
\* delivery stage returned
AppliedReplies(data) ==
    { BroadcastBody(0, <<>>, 0, data, missing) : missing \in BroadcastShapes }

\* answers of code 0 whose data is any of IntegerValues
AllocatedReplies == { BroadcastBody(0, <<>>, 0, data, {}) : data \in IntegerValues }

\* what the network may answer to a query it refuses
FailedReplies ==
    { QueryBody(1, log, <<>>, Null, missing) : log \in Logs, missing \in QueryShapes }

\* its answers of code 0: every value in the full shape, and every shape
\* with the sample values
AnsweredReplies(values, samples) ==
    { QueryBody(0, <<>>, <<"o", "k">>, value, {}) : value \in values }
    \cup { QueryBody(0, <<>>, <<"o", "k">>, value, missing) :
               value \in samples, missing \in QueryShapes }

NumberReplies == AnsweredReplies(IntegerValues, {B64(<<"5">>), Str(<<"N", "Q">>)})

HistoryReplies ==
    AnsweredReplies(HistoryValues,
        { B64(Payload(<< <<<<"A">>, Datetime(2021, 1, 1, 1, 1, 1, 0)>> >>)),
          B64(<<>>) })

---------------------------------------------------------------------------
(***************************************************************************)
(* State.                                                                  *)
(***************************************************************************)
VARIABLES
    pc,                 \* where the client is: "idle", "waiting" (inside
                        \* requests.get), "received", "returned", "quit",
                        \* "raised" (a fault reached the caller)
    op,                 \* the operation called
    args,               \* its arguments
    now,                \* its reading of datetime.now()
    transaction_string, \* the transaction or query string it sent
    requests,           \* requests.get calls it made
    get,                \* what requests.get gave: a body or an exception
    result,             \* the tuple it returned
    path,               \* "try" or "except": where the return statement is
    calls,              \* calls made so far
    sent,               \* bag of the ALLOCATE strings sent so far
    net,                \* the network: next device id, blocks applied
    before,             \* the network when the call began
    round               \* the network's handling of the request in flight

vars == << pc, op, args, now, transaction_string, requests, get, result, path,
           calls, sent, net, before, round >>

NoResponse == [exc |-> "", v |-> <<>>]

NoRound == [stage |-> "none", outcome |-> "", reply |-> Null]

Init ==
    /\ pc = "idle"
    /\ op = ""
    /\ args = NoArgs
    /\ now = NoDatetime
    /\ transaction_string = <<>>
    /\ requests = 0
    /\ get = NoResponse
    /\ result = <<>>
    /\ path = ""
    /\ calls = 0
    /\ sent = EmptyBag
    /\ net = [next_id |-> 0, blocks |-> 0]
    /\ before = [next_id |-> 0, blocks |-> 0]
    /\ round = NoRound

\* the frame of a new call, up to requests.get
Enter(name, a, t) ==
    /\ pc = "idle"
    /\ calls < MaxCalls
    /\ calls' = calls + 1
    /\ op' = name
    /\ args' = a
    /\ now' = t
    /\ before' = net
    /\ get' = NoResponse
    /\ round' = NoRound
    /\ UNCHANGED net

\* a variant that makes the request a second time
RequestWithRetry(string) ==
    /\ transaction_string' = string
    /\ requests' = requests + 2
    /\ pc' = "waiting"
    /\ result' = <<>>
    /\ path' = ""

\* requests.get(url) with the string in the URL: the call blocks
Request(string) ==
    /\ transaction_string' = string
    /\ requests' = requests + 1
    /\ pc' = "waiting"
    /\ result' = <<>>
    /\ path' = ""

\* the end of a call: its return statement, quit(), or a fault let through
Leave(outcome, where) ==
    /\ pc' = CASE outcome.kind = "return" -> "returned"
               [] outcome.kind = "quit" -> "quit"
               [] OTHER -> "raised"
    /\ result' = outcome.value
    /\ path' = where

---------------------------------------------------------------------------
(***************************************************************************)
(* The calls.                                                              *)
(***************************************************************************)
allocate_device_id(location) ==
    \E t \in Clock :
        /\ Enter("allocate_device_id", [NoArgs EXCEPT !.location = location], t)
        /\ Request(AllocateString(location, t))
        /\ sent' = sent (+) SetToBag({AllocateString(location, t)})

send_device_location(device_id, location, signing_key, destruct) ==
    \E t \in Clock :
        LET string == BlockString(device_id, location, t, destruct, signing_key) IN
        /\ Enter("send_device_location",
                 [device_id |-> device_id, location |-> location,
                  destruct |-> destruct, signing_key |-> signing_key], t)
        /\ IF Raised(string)
           THEN /\ Leave(send_device_location_except(string.exc), "except")
                /\ transaction_string' = <<>>
                /\ requests' = 0
           ELSE Request(string.v)
        /\ UNCHANGED sent

query_number_of_devices ==
    /\ Enter("query_number_of_devices", NoArgs, NoDatetime)
    /\ Request(Number)
    /\ UNCHANGED sent

query_device_information(device_id) ==
    /\ Enter("query_device_information", [NoArgs EXCEPT !.device_id = device_id],
             NoDatetime)
    /\ Request(HistoryString(device_id))
    /\ UNCHANGED sent

---------------------------------------------------------------------------
(***************************************************************************)
(* The network and the transport, between the request and its response.    *)
(***************************************************************************)
\* requests.get can put the string in a URL: a string that has no UTF-8
\* encoding makes it raise before anything is sent
Encodable == ~Raised(EncodeUtf8(transaction_string))

\* the network takes a transaction through its check and delivery stages
\* and answers; only an applied transaction changes its state
BroadcastTxCommit ==
    /\ pc = "waiting"
    /\ op \in Writes
    /\ round.stage = "none"
    /\ Encodable
    /\ \E outcome \in {"rejected", "deliver_failed", "applied"} :
         \E reply \in CASE outcome = "rejected" -> RejectedReplies
                        [] outcome = "deliver_failed" -> DeliverFailedReplies
                        [] op = "allocate_device_id" ->
                             AppliedReplies(B64(IntStr(net.next_id)))
                             \cup AllocatedReplies
                        [] OTHER -> AppliedReplies(Null) :
           /\ round' = [stage |-> "handled", outcome |-> outcome, reply |-> reply]
           /\ net' = IF outcome # "applied" THEN net
                     ELSE IF op = "allocate_device_id"
                          THEN [net EXCEPT !.next_id = @ + 1]
                          ELSE [net EXCEPT !.blocks = @ + 1]
    /\ UNCHANGED << pc, op, args, now, transaction_string, requests, get, result,
                    path, calls, sent, before >>

\* the network answers a query; its state does not change
AbciQuery ==
    /\ pc = "waiting"
    /\ op \in Queries
    /\ round.stage = "none"
    /\ Encodable
    /\ \E outcome \in {"failed", "answered"} :
         \E reply \in CASE outcome = "failed" -> FailedReplies
                        [] op = "query_number_of_devices" -> NumberReplies
                        [] OTHER -> HistoryReplies :
           round' = [stage |-> "handled", outcome |-> outcome, reply |-> reply]
    /\ UNCHANGED << pc, op, args, now, transaction_string, requests, get, result,
                    path, calls, sent, net, before >>

\* requests.get comes back with what it got
Receive(what) ==
    /\ pc = "waiting"
    /\ pc' = "received"
    /\ get' = what
    /\ round' = [round EXCEPT !.reply = Null]
    /\ UNCHANGED << op, args, now, transaction_string, requests, result, path,
                    calls, sent, net, before >>

\* the network's answer arrives as it was sent
ResponseArrives ==
    /\ round.stage = "handled"
    /\ Receive(Ok([wellformed |-> TRUE, body |-> round.reply]))

\* a body arrives that is not the network's JSON: cut short, or a bare null
ResponseGarbled ==
    /\ round.stage = "handled"
    /\ \E content \in { [wellformed |-> FALSE, body |-> Null],
                        [wellformed |-> TRUE, body |-> Null] } :
         Receive(Ok(content))

\* the connection fails, before the request reached the network or after the
\* network handled it
ConnectionFails ==
    /\ round.stage \in {"none", "handled"}
    /\ Receive(Raise(IF Encodable THEN "ConnectionError"
                     ELSE "UnicodeEncodeError"))

\* the user interrupts the blocked call
KeyboardInterrupt ==
    /\ round.stage \in {"none", "handled"}
    /\ Receive(Raise("KeyboardInterrupt"))

---------------------------------------------------------------------------
(***************************************************************************)
(* The rest of each operation, from the response to its return.            *)
(***************************************************************************)
Finish(outcome, where) ==
    /\ Leave(outcome, where)
    /\ UNCHANGED << op, args, now, transaction_string, requests, get, calls, sent,
                    net, before, round >>

allocate_device_id_returns ==
    /\ pc = "received"
    /\ op = "allocate_device_id"
    /\ LET r == allocate_device_id_try(get) IN
       IF Raised(r) THEN Finish(allocate_device_id_except(r.exc), "except")
       ELSE Finish(Return(r.v), "try")

send_device_location_returns ==
    /\ pc = "received"
    /\ op = "send_device_location"
    /\ LET r == send_device_location_try(get) IN
       IF Raised(r) THEN Finish(send_device_location_except(r.exc), "except")
       ELSE Finish(Return(r.v), "try")

query_number_of_devices_returns ==
    /\ pc = "received"
    /\ op = "query_number_of_devices"
    /\ LET r == query_number_of_devices_try(get) IN
       IF Raised(r) THEN Finish(query_number_of_devices_except(r.exc), "except")
       ELSE Finish(Return(r.v), "try")

query_device_information_returns ==
    /\ pc = "received"
    /\ op = "query_device_information"
    /\ LET r == query_device_information_try(get) IN
       IF Raised(r)
       THEN Finish(query_device_information_except(r.exc, r.v), "except")
       ELSE Finish(Return(r.v), "try")

\* the caller goes on to its next call
NextCall ==
    /\ pc = "returned"
    /\ pc' = "idle"
    /\ op' = ""
    /\ args' = NoArgs
    /\ now' = NoDatetime
    /\ transaction_string' = <<>>
    /\ requests' = 0
    /\ get' = NoResponse
    /\ result' = <<>>
    /\ path' = ""
    /\ round' = NoRound
    /\ before' = net
    /\ UNCHANGED << calls, sent, net >>

Next ==
    \/ \E location \in Locations : allocate_device_id(location)
    \/ \E device_id \in DeviceIds, location \in Locations,
          signing_key \in SigningKeys, destruct \in BOOLEAN :
         send_device_location(device_id, location, signing_key, destruct)
    \/ query_number_of_devices
    \/ \E device_id \in DeviceIds : query_device_information(device_id)
    \/ BroadcastTxCommit
    \/ AbciQuery
    \/ ResponseArrives
    \/ ResponseGarbled
    \/ ConnectionFails
    \/ KeyboardInterrupt
    \/ allocate_device_id_returns
    \/ send_device_location_returns
    \/ query_number_of_devices_returns
    \/ query_device_information_returns
    \/ NextCall

Spec == Init /\ [][Next]_vars

---------------------------------------------------------------------------
(***************************************************************************)
(* What a state says about the call in progress.                           *)
(***************************************************************************)
Returned(name) == pc = "returned" /\ op = name

Has(x, k) == x.t = "obj" /\ k \in DOMAIN x.v

\* no request was made: the request string could not be built
BuildFault ==
    /\ op = "send_device_location"
    /\ Raised(BlockString(args.device_id, args.location, now, args.destruct,
                          args.signing_key))

\* requests.get raised
TransportFault == requests = 1 /\ Raised(get)

\* requests.get gave a body, and the body is JSON
GotJson == requests = 1 /\ ~Raised(get) /\ get.v.wellformed

Body == get.v.body

StageName == IF op \in Writes THEN "check_tx" ELSE "response"

\* the body holds result.check_tx (a write) or result.response (a query)
HasStage == GotJson /\ Has(Body, "result") /\ Has(Body.v["result"], StageName)

StageObject == Body.v["result"].v[StageName]

HasCode == HasStage /\ Has(StageObject, "code")

Code == StageObject.v["code"].v

Rejected == HasCode /\ Code # 0

HasLog == HasStage /\ Has(StageObject, "log")

Log == StageObject.v["log"]

HasInfo == HasStage /\ Has(StageObject, "info")

HasValue == HasStage /\ Has(StageObject, "value")

Value == StageObject.v["value"]

HasData ==
    /\ GotJson
    /\ Has(Body, "result")
    /\ Has(Body.v["result"], "deliver_tx")
    /\ Has(Body.v["result"].v["deliver_tx"], "data")

Data == Body.v["result"].v["deliver_tx"].v["data"]

\* a key the operation reads is not in the body
MissingExpected ==
    /\ GotJson
    /\ \/ ~HasCode
       \/ Code # 0 /\ op # "allocate_device_id" /\ ~HasLog
       \/ Code = 0 /\ op = "allocate_device_id" /\ ~HasData
       \/ Code = 0 /\ op \in Queries /\ ~HasValue
       \/ Code = 0 /\ op = "query_device_information" /\ ~HasInfo

\* the payload of a zero-code answer does not decode
BadPayload ==
    /\ HasCode
    /\ Code = 0
    /\ \/ op = "allocate_device_id" /\ HasData /\ Raised(DecodeInteger(Data))
       \/ op = "query_number_of_devices" /\ HasValue /\ Raised(DecodeInteger(Value))
       \/ op = "query_device_information" /\ HasValue /\ Raised(DecodeHistory(Value))

\* the response could not be read: not JSON, a key missing, a bad payload
ParseFault ==
    /\ requests = 1
    /\ ~Raised(get)
    /\ (~get.v.wellformed \/ MissingExpected \/ BadPayload)

\* the result has the types the operation declares
TypedTuple ==
    CASE op = "allocate_device_id" ->
           Len(result) = 2 /\ result[1] \in BOOLEAN /\ result[2] \in Int
      [] op = "send_device_location" ->
           Len(result) = 2 /\ result[1] \in BOOLEAN /\ result[2].t = "str"
      [] op = "query_number_of_devices" ->
           /\ Len(result) = 3 /\ result[1] \in BOOLEAN /\ result[2].t = "str"
           /\ result[3] \in Int
      [] OTHER ->
           /\ Len(result) = 3 /\ result[1] \in BOOLEAN /\ result[2].t = "str"
           /\ \A k \in 1..Len(result[3]) :
                Len(result[3][k]) = 2 /\ result[3][k][2].year \in Int

\* histories of at most MaxVisits visits, as the caller should get them
Histories == VisitLists(MaxVisits)

IntegerPayload == [n \in 0..MaxInteger |-> B64(IntStr(n))]

\* "True" / "False" back to the bool
ParseBool(s) ==
    IF s = BoolStr(TRUE) THEN Ok(TRUE)
    ELSE IF s = BoolStr(FALSE) THEN Ok(FALSE)
    ELSE Raise("ValueError")

\* the check the network makes of a BLOCK transaction: six fields in the wire
\* order, and the signature is one over the digest of the four parsed fields
VerifyBlock(string, signing_key) ==
    LET f == Split(string) IN
    /\ Len(f) = 6
    /\ f[1] = Block
    /\ LET id == ParseInt(f[2])
           ts == strptime(f[4])
           destruct == ParseBool(f[5])
       IN /\ ~Raised(id) /\ ~Raised(ts) /\ ~Raised(destruct)
          /\ LET digest == compute_hash(id.v, f[3], ts.v, destruct.v)
                 signature == Then(digest, LAMBDA h : Sign(signing_key, h))
             IN ~Raised(signature) /\ Hex(signature.v) = f[6]

---------------------------------------------------------------------------
(***************************************************************************)
(* The claims.                                                             *)
(***************************************************************************)

\* C1: for each of the four operations, every outcome of the network call
\* other than a user interrupt ends in the operation's typed result tuple and
\* no fault reaches the caller; a user interrupt is the only outcome that is
\* not made a result tuple, and it ends the process.
C1_NoFaultReachesCaller ==
    /\ pc # "raised"
    /\ pc = "returned" => TypedTuple /\ get.exc # "KeyboardInterrupt"
    /\ pc = "quit" => get.exc = "KeyboardInterrupt"

\* a zero-code history answer whose payload does not decode came back as the
\* failure tuple
C1_Witness ==
    /\ Returned("query_device_information")
    /\ BadPayload
    /\ path = "except"
    /\ result = <<FALSE, UnexpectedError, <<>>>>

\* C2: a write leaves no partial state: send_device_location and
\* allocate_device_id return ok=true only if the network applied the
\* transaction, and when they return ok=false the network is as it was
\* before the call.
C2_NoPartialState ==
    (pc = "returned" /\ op \in Writes) =>
        /\ result[1] => round.outcome = "applied"
        /\ ~result[1] => net = before

\* C3: the BLOCK string send_device_location sends is self-consistent: split
\* at "=" into its six fields, the digest of the parsed device id, location,
\* timestamp and destruct flag is the one its signature is over.
C3_BlockSelfConsistent ==
    (pc = "waiting" /\ op = "send_device_location") =>
        VerifyBlock(transaction_string, args.signing_key)

\* the same holds of every location that does not hold the separator
C3_ConsistentWithoutSeparator ==
    (/\ pc = "waiting" /\ op = "send_device_location"
     /\ \A i \in 1..Len(args.location) : args.location[i] # "=") =>
        VerifyBlock(transaction_string, args.signing_key)

\* C4, as claimed: for send_device_location, query_number_of_devices and
\* query_device_information a non-zero code returns ok=false with the
\* network's log unchanged, and the message "unexpected error" is returned
\* only for a transport or parse fault.
C4_GenericOnlyForTransportOrParse ==
    (pc = "returned" /\ op # "allocate_device_id") =>
        /\ Rejected => ~result[1]
        /\ (Rejected /\ HasLog) => result[2] = Log
        /\ result[2] = UnexpectedError => (TransportFault \/ ParseFault)

\* C4, amended: ... and the message "unexpected error" is returned only for
\* a fault: one raised while the request string is built, a transport fault
\* or a parse fault; never for a rejection that came with a log.
C4_RejectionSurfacesLog ==
    (pc = "returned" /\ op # "allocate_device_id") =>
        /\ Rejected => ~result[1]
        /\ (Rejected /\ HasLog) => result[2] = Log /\ path = "try"
        /\ result[2] = UnexpectedError =>
             /\ BuildFault \/ TransportFault \/ ParseFault
             /\ ~(Rejected /\ HasLog)

\* a rejected transaction came back with the network's log
C4_Witness ==
    /\ Returned("send_device_location")
    /\ Rejected
    /\ HasLog
    /\ Log = Str(<<"b", "a", "d">>)
    /\ result = <<FALSE, Str(<<"b", "a", "d">>)>>

\* C5: for both queries every response object of code zero yields ok=true,
\* whichever of log, info and value it holds, and only a non-zero code
\* yields ok=false (the value, where there is one, being one that decodes).
C5_ZeroCodeSucceeds ==
    (/\ pc = "returned" /\ op \in Queries /\ HasCode
     /\ ~(HasValue /\ BadPayload)) =>
        (result[1] <=> Code = 0)

\* C6: a zero-code history answer whose payload is
\* loc1=ts1=...=locN=tsN returns ok=true with exactly the N records
\* (loc_k, ts_k), in that order, repeats kept; the empty payload returns
\* ok=true with the empty sequence.
C6_HistoryDecoded ==
    (Returned("query_device_information") /\ HasCode /\ Code = 0 /\ HasValue) =>
        \A h \in Histories :
            Value = B64(Payload(h)) => result[1] /\ result[3] = h

\* the same holds of the answers that carry the info field
C6_DecodedWhenInfoPresent ==
    (/\ Returned("query_device_information") /\ HasCode /\ Code = 0
     /\ HasValue /\ HasInfo) =>
        \A h \in Histories :
            Value = B64(Payload(h)) => result[1] /\ result[3] = h

\* C7: on the success path the integer is decoded faithfully:
\* allocate_device_id returns (true, n) for check code 0 and data base64 of
\* the decimal string of n, query_number_of_devices returns (true, "", n)
\* for code 0 and value base64 of the decimal string of n.
C7_IntegersDecoded ==
    /\ (Returned("allocate_device_id") /\ HasCode /\ Code = 0 /\ HasData) =>
           \A n \in 0..MaxInteger :
               Data = IntegerPayload[n] => result = <<TRUE, n>>
    /\ (Returned("query_number_of_devices") /\ HasCode /\ Code = 0 /\ HasValue) =>
           \A n \in 0..MaxInteger :
               Value = IntegerPayload[n] => result = <<TRUE, EmptyStr, n>>

\* the count query returned the two-digit 10 of the payload "MTA="
C7_Witness ==
    /\ Returned("query_number_of_devices")
    /\ HasValue
    /\ Value = Str(<<"M", "T", "A", "=">>)
    /\ result = <<TRUE, EmptyStr, 10>>

\* C8: a failure carries only its sentinel: -1 for allocate_device_id and
\* query_number_of_devices, the empty sequence for
\* query_device_information, also when decoding fails after some pairs were
\* decoded; and a result with ok=true never comes from the failure path.
C8_FailureCarriesSentinel ==
    pc = "returned" =>
        /\ (op = "allocate_device_id" /\ ~result[1]) => result[2] = -1
        /\ (op = "query_number_of_devices" /\ ~result[1]) => result[3] = -1
        /\ (op = "query_device_information" /\ ~result[1]) => result[3] = <<>>
        /\ result[1] => path = "try"

\* decoding failed after a pair had been decoded, and nothing of it came back
C8_Witness ==
    /\ Returned("query_device_information")
    /\ HasCode /\ Code = 0 /\ HasValue
    /\ Raised(DecodeHistory(Value))
    /\ DecodeHistory(Value).v # <<>>
    /\ ~result[1]
    /\ result[3] = <<>>

\* C9: no two calls of allocate_device_id send the same ALLOCATE string.
C9_AllocationsNeverCollide ==
    \A string \in BagToSet(sent) : CopiesIn(string, sent) = 1

\* C10, as claimed: a call that returned made exactly one request.
C10_ExactlyOneRequest ==
    pc = "returned" => requests = 1

\* C10, amended: a call makes at most one request and never a second; it
\* makes exactly one on every path on which the request string was built,
\* and none when a fault is raised while the string is built.
C10_AtMostOneRequest ==
    /\ requests <= 1
    /\ pc \in {"waiting", "received", "quit"} => requests = 1
    /\ pc = "returned" => requests = (IF BuildFault THEN 0 ELSE 1)

\* a call whose request string could not be built returned without a request
C10_Witness ==
    /\ Returned("send_device_location")
    /\ BuildFault
    /\ requests = 0
    /\ result = <<FALSE, UnexpectedError>>

=============================================================================
